---- MODULE Spec2Model ----
(***************************************************************************)
(* Message-lane proof verification of the bridge runtime                   *)
(* (bin/runtime-common/src/messages.rs).                                   *)
(*                                                                         *)
(* target::verify_messages_proof is modelled statement by statement: one   *)
(* action per check of the function, in the order of the source.  The      *)
(* header chain and the storage-proof reader are collaborators that live   *)
(* outside the two source files; they are modelled from their documented   *)
(* interface (operators marked "collaborator" below).                      *)
(***************************************************************************)
EXTENDS Integers, Sequences, FiniteSets, TLC

(***************************************************************************)
(* Bounds of the model.                                                    *)
(***************************************************************************)
\* nonces of the submitted range and of the proved storage are 0..MaxNonce
MaxNonce == 2

(***************************************************************************)
(* Types.                                                                  *)
(***************************************************************************)
\* MessageNonce is u64.  TLC integers are 32 bits wide, so the width is
\* scaled down: MessageNonceMAX stands for u64::MAX.
MessageNonceMAX == 63

Lanes == {"test", "dsbl"}
HeaderHashes == {"h1", "h2"}
StateRoots == {"r1", "r2"}

\* Option<T>: None is the empty sequence, Some(x) a one-element sequence
None == <<>>
Some(x) == <<x>>

\* Result<T, E> of the reader and of the adapter
Ok(v) == [ok |-> TRUE, value |-> v, error |-> ""]
Err(e) == [ok |-> FALSE, value |-> <<>>, error |-> e]

\* messages::Error
Error(variant, inner) == [variant |-> variant, inner |-> inner]
NoError == Error("", "")
EmptyMessageProof == Error("EmptyMessageProof", "")
MessagesCountMismatch == Error("MessagesCountMismatch", "")
HeaderChain(e) == Error("HeaderChain", e)
MessageStorage(e) == Error("MessageStorage", e)
OutboundLaneStorage(e) == Error("OutboundLaneStorage", e)
StorageProof(e) == Error("StorageProof", e)
InboundLaneStorage(e) == Error("InboundLaneStorage", e)
InvalidMessageWeight == Error("InvalidMessageWeight", "")
MessageTooLarge == Error("MessageTooLarge", "")

\* the three counters of OutboundLaneData
OutboundLaneData(oldest, received, generated) ==
  [oldest_unpruned_nonce |-> oldest, latest_received_nonce |-> received,
   latest_generated_nonce |-> generated]

\* InboundLaneData: the relayers to reward and the last confirmed nonce
InboundLaneData(relayers, last_confirmed) ==
  [relayers |-> relayers, last_confirmed_nonce |-> last_confirmed]

(***************************************************************************)
(* Encoding of the stored values (SCALE): a byte string is a sequence of   *)
(* numbers.  A Vec<u8> is its length followed by its bytes, an             *)
(* OutboundLaneData is its three counters.  Decoding reads from the front  *)
(* and fails when the input ends early.                                    *)
(***************************************************************************)
encode_payload(payload) == <<Len(payload)>> \o payload

decode_payload(raw) ==
  IF Len(raw) >= 1 /\ Len(raw) - 1 >= raw[1]
    THEN Ok(SubSeq(raw, 2, raw[1] + 1))
    ELSE Err("StorageValueDecodeFailed")

encode_lane_data(d) ==
  <<d.oldest_unpruned_nonce, d.latest_received_nonce, d.latest_generated_nonce>>

decode_lane_data(raw) ==
  IF Len(raw) >= 3
    THEN Ok(OutboundLaneData(raw[1], raw[2], raw[3]))
    ELSE Err("StorageValueDecodeFailed")

\* a VecDeque of relayers is its length followed by one entry per relayer
encode_inbound_lane_data(d) ==
  <<Len(d.relayers)>> \o d.relayers \o <<d.last_confirmed_nonce>>

decode_inbound_lane_data(raw) ==
  IF Len(raw) >= 1 /\ Len(raw) >= raw[1] + 2
    THEN Ok(InboundLaneData(SubSeq(raw, 2, raw[1] + 1), raw[raw[1] + 2]))
    ELSE Err("StorageValueDecodeFailed")

\* payloads and lane states that the proved storage may hold
Payloads == {<<7>>, <<9>>}
LaneStates == {OutboundLaneData(1, 1, 1)}
InboundLaneStates == {InboundLaneData(<<>>, 0), InboundLaneData(<<5>>, 1)}

\* trie nodes that are on the path of no key
ExtraNodes == {"extra"}

\* stored bytes: a correct encoding, or bytes that end early
RawMessages == {encode_payload(p) : p \in Payloads} \cup {<<1>>}
RawLaneData == {encode_lane_data(d) : d \in LaneStates} \cup {<<1>>}
RawInboundLaneData == {encode_inbound_lane_data(d) : d \in InboundLaneStates} \cup {<<1>>}

(***************************************************************************)
(* Storage keys (bp_messages::storage_keys): one key per (lane, nonce) for *)
(* messages and one per lane for the outbound lane data.                   *)
(***************************************************************************)
message_key(lane, nonce) == [map |-> "OutboundMessages", lane |-> lane, nonce |-> nonce]
outbound_lane_data_key(lane) == [map |-> "OutboundLanes", lane |-> lane, nonce |-> 0]
inbound_lane_data_key(lane) == [map |-> "InboundLanes", lane |-> lane, nonce |-> 0]

(***************************************************************************)
(* A raw storage proof.  Its nodes are: the values it proves for the       *)
(* message keys and the lane-data keys of one lane, and `extra` nodes that *)
(* no read visits.  `root` is the state root the nodes hash to.            *)
(***************************************************************************)
\* proofs of messages and of the outbound lane state
RawStorageProofs ==
  [root : StateRoots,
   lane : Lanes,
   messages : [0..MaxNonce -> {None} \cup {Some(r) : r \in RawMessages}],
   outbound_lane_data : {None} \cup {Some(r) : r \in RawLaneData},
   inbound_lane_data : {None},
   extra : SUBSET ExtraNodes]

\* proofs of the inbound lane state, with or without an outbound lane state
DeliveryStorageProofs ==
  [root : StateRoots,
   lane : Lanes,
   messages : {[n \in 0..MaxNonce |-> None]},
   outbound_lane_data : {None} \cup {Some(encode_lane_data(d)) : d \in LaneStates},
   inbound_lane_data : {None} \cup {Some(r) : r \in RawInboundLaneData},
   extra : SUBSET ExtraNodes]

\* keys of the values the proof carries
ProofKeys(sp) ==
  {message_key(sp.lane, n) : n \in {m \in DOMAIN sp.messages : sp.messages[m] # None}}
    \cup (IF sp.outbound_lane_data # None THEN {outbound_lane_data_key(sp.lane)} ELSE {})
    \cup (IF sp.inbound_lane_data # None THEN {inbound_lane_data_key(sp.lane)} ELSE {})

FromBridgedChainMessagesProofs ==
  [bridged_header_hash : HeaderHashes,
   storage_proof : RawStorageProofs,
   lane : Lanes,
   nonces_start : 0..MaxNonce,
   nonces_end : 0..MaxNonce]

FromBridgedChainMessagesDeliveryProofs ==
  [bridged_header_hash : HeaderHashes,
   storage_proof : DeliveryStorageProofs,
   lane : Lanes]

VARIABLES
  imported_headers,  \* trusted header set: finalized header hash -> state root
  proof,             \* the FromBridgedChainMessagesProof under verification
  messages_count,    \* the declared number of messages
  pc,                \* position in verify_messages_proof
  visited,           \* keys the storage reader has read (its recorder)
  nonce,             \* loop variable of the message loop
  messages,          \* the messages vector
  lane_state,        \* proved_lane_messages.lane_state
  checks,            \* checks performed so far, in order
  result,            \* return value, once pc = "done"
  this_chain,        \* ThisChainWithMessages: the hooks of this chain
  bridged_chain,     \* BridgedChainWithMessages: the hooks of the bridged chain
  outbound_lane,     \* OutboundLaneData of the lane messages are sent over
  call,              \* arguments of the call of a function without steps
  ret,               \* its return value
  usize_max,         \* usize::MAX of the target the runtime is built for
  previous,          \* what the previous invocation with the same arguments returned
  message,           \* the DispatchMessage handed to the message dispatch
  xcm_weigher,       \* outcome of XcmWeigher::weight for the message
  executed           \* calls of XcmExecutor::execute_xcm_in_credit, in order

\* state of a proof verification
proof_vars == <<imported_headers, proof, messages_count, pc, visited, nonce, messages,
                lane_state, checks, result>>
\* chain hooks, lane state and the calls of the other functions
env_vars == <<this_chain, bridged_chain, outbound_lane, call, ret, usize_max, previous, message,
              xcm_weigher, executed>>

vars == <<proof_vars, env_vars>>

\* no call of the other functions is in progress
NoCall == [fn |-> "none"]
NoReturn == [returned |-> FALSE]
EnvIdle ==
  /\ this_chain = [is_message_accepted |-> {}, maximal_pending_messages |-> 0]
  /\ bridged_chain = [max_extrinsic_size |-> 0, verify_dispatch_weight |-> {}]
  /\ outbound_lane = [l \in Lanes |-> OutboundLaneData(1, 0, 0)]
  /\ call = NoCall
  /\ ret = NoReturn
  /\ usize_max = MessageNonceMAX
  /\ previous = NoReturn
  /\ message = <<>>
  /\ xcm_weigher = <<>>
  /\ executed = <<>>

\* return values of verify_messages_proof
Pending == [returned |-> FALSE, ok |-> FALSE, error |-> NoError, proved |-> {}]
ReturnErr(e) == [returned |-> TRUE, ok |-> FALSE, error |-> e, proved |-> {}]
ReturnOk(p) == [returned |-> TRUE, ok |-> TRUE, error |-> NoError, proved |-> p]

(***************************************************************************)
(* Collaborators: header chain and storage-proof reader.                   *)
(***************************************************************************)
\* HeaderChain::finalized_header_state_root
finalized_header_state_root(headers, hash) ==
  IF hash \in DOMAIN headers THEN Some(headers[hash]) ELSE None

\* StorageProofChecker::new: the proof must hash to the trusted root
storage_proof_checker_new(root, sp) ==
  IF sp.root # root THEN Err("StorageProof(StorageRootMismatch)") ELSE Ok(<<>>)

\* HeaderChain::parse_finalized_storage_proof, up to the call of the closure:
\* Ok when the closure is given a reader, else the HeaderChainError
parse_finalized_storage_proof(headers, hash, sp) ==
  LET state_root == finalized_header_state_root(headers, hash)
  IN  IF state_root = None
        THEN Err("UnknownHeader")
        ELSE storage_proof_checker_new(state_root[1], sp)

\* StorageProofChecker::read_value: the value the proof proves under the key
read_value(sp, key) ==
  IF key.lane # sp.lane THEN None
  ELSE IF key.map = "OutboundLanes" THEN sp.outbound_lane_data
  ELSE IF key.map = "InboundLanes" THEN sp.inbound_lane_data
  ELSE IF key.map = "OutboundMessages" /\ key.nonce \in DOMAIN sp.messages
    THEN sp.messages[key.nonce]
  ELSE None

\* T::decode of the value type T the caller asks for
decode(T, raw) ==
  IF T = "OutboundLaneData" THEN decode_lane_data(raw)
  ELSE IF T = "InboundLaneData" THEN decode_inbound_lane_data(raw)
  ELSE decode_payload(raw)

\* StorageProofChecker::read_and_decode_mandatory_value::<T>
read_and_decode_mandatory_value(sp, key, T) ==
  LET raw == read_value(sp, key)
  IN  IF raw = None THEN Err("StorageValueEmpty") ELSE decode(T, raw[1])

\* StorageProofChecker::read_and_decode_opt_value::<T>: a missing value is
\* None, any other failure of the mandatory read is returned
read_and_decode_opt_value(sp, key, T) ==
  LET r == read_and_decode_mandatory_value(sp, key, T)
  IN  IF r.ok THEN Ok(Some(r.value))
      ELSE IF r.error = "StorageValueEmpty" THEN Ok(None)
      ELSE r

\* some node of the proof was visited by no read
has_unused_nodes(sp, read_keys) == ProofKeys(sp) \ read_keys # {} \/ sp.extra # {}

\* StorageProofChecker::ensure_no_unused_nodes
ensure_no_unused_nodes(sp, read_keys) ==
  IF has_unused_nodes(sp, read_keys) THEN Err("UnusedNodesInTheProof") ELSE Ok(<<>>)

(***************************************************************************)
(* target::StorageProofCheckerAdapter                                      *)
(***************************************************************************)
\* mutant: the lane state is read as a mandatory value
read_and_decode_outbound_lane_data_mandatory(sp, lane_id) ==
  LET r == read_and_decode_mandatory_value(sp, outbound_lane_data_key(lane_id), "OutboundLaneData")
  IN  IF r.ok THEN Ok(Some(r.value)) ELSE [r EXCEPT !.error = OutboundLaneStorage(r.error)]

\* mutant: every failure of the lane-state read is taken as "not proved"
read_and_decode_outbound_lane_data_lenient(sp, lane_id) ==
  LET r == read_and_decode_opt_value(sp, outbound_lane_data_key(lane_id), "OutboundLaneData")
  IN  IF r.ok THEN r ELSE Ok(None)

read_and_decode_outbound_lane_data(sp, lane_id) ==
  LET r == read_and_decode_opt_value(sp, outbound_lane_data_key(lane_id), "OutboundLaneData")
  IN  IF r.ok THEN r ELSE [r EXCEPT !.error = OutboundLaneStorage(r.error)]

\* mutant: a message that cannot be read is replaced by the default payload
read_and_decode_message_payload_or_default(sp, key) ==
  LET r == read_and_decode_mandatory_value(sp, message_key(key.lane_id, key.nonce),
                                           "MessagePayload")
  IN  IF r.ok THEN r ELSE Ok(<<>>)

read_and_decode_message_payload(sp, key) ==
  LET r == read_and_decode_mandatory_value(sp, message_key(key.lane_id, key.nonce),
                                           "MessagePayload")
  IN  IF r.ok THEN r ELSE [r EXCEPT !.error = MessageStorage(r.error)]

(***************************************************************************)
(* Arithmetic of MessageNonce.                                             *)
(***************************************************************************)
checked_sub(a, b) == IF a >= b THEN Some(a - b) ELSE None
\* mutant: addition modulo 2^w
wrapping_add(a, b) == (a + b) % (MessageNonceMAX + 1)
saturating_add(a, b) == IF a > MessageNonceMAX - b THEN MessageNonceMAX ELSE a + b

(***************************************************************************)
(* target::verify_messages_proof                                           *)
(***************************************************************************)
MessageKey(lane, n) == [lane_id |-> lane, nonce |-> n]
Message(key, payload) == [key |-> key, payload |-> payload]
ProvedLaneMessages(lane, state, msgs) ==
  [lane |-> lane, lane_state |-> state, messages |-> msgs]

\* mutant: only a declared count below the number of messages is rejected
messages_in_the_proof_at_least(nonces_start, nonces_end, count) ==
  LET nonces_difference == checked_sub(nonces_end, nonces_start)
  IN  IF nonces_difference # None
        THEN LET in_proof == saturating_add(nonces_difference[1], 1)
             IN  IF in_proof > count THEN Err(MessagesCountMismatch) ELSE Ok(in_proof)
        ELSE Ok(0)

\* the count check: Err(MessagesCountMismatch), or Ok(messages_in_the_proof)
messages_in_the_proof(nonces_start, nonces_end, count) ==
  LET nonces_difference == checked_sub(nonces_end, nonces_start)
  IN  IF nonces_difference # None
        THEN LET in_proof == saturating_add(nonces_difference[1], 1)
             IN  IF in_proof # count THEN Err(MessagesCountMismatch) ELSE Ok(in_proof)
        ELSE Ok(0)

\* mutant: the loop runs over nonces_start..nonces_end, end excluded
has_next_nonce_exclusive(n, nonces_end) == n < nonces_end

\* `for nonce in nonces_start..=nonces_end` has a next nonce
has_next_nonce(n, nonces_end) == n <= nonces_end

\* mutant: a proof without messages counts as empty
is_empty_proof_without_messages(state, msgs) == msgs = <<>>

\* mutant: the test of the messages is negated
is_empty_proof_negated(state, msgs) == state = None /\ msgs # <<>>

\* the proof proves nothing
is_empty_proof(state, msgs) == state = None /\ msgs = <<>>

Return(r) ==
  /\ pc' = "done"
  /\ result' = r

\* mutant: the header chain's error is returned as a storage-proof error
ParseFinalizedStorageProof_mislabelled ==
  /\ pc = "parse_finalized_storage_proof"
  /\ LET r == parse_finalized_storage_proof(imported_headers, proof.bridged_header_hash,
                                            proof.storage_proof)
     IN  IF r.ok
           THEN /\ pc' = "count"
                /\ UNCHANGED result
           ELSE Return(ReturnErr(StorageProof(r.error)))
  /\ checks' = Append(checks, "header")
  /\ UNCHANGED <<imported_headers, proof, messages_count, visited, nonce, messages, lane_state>>
  /\ UNCHANGED env_vars

\* mutant: a header is dropped from the trusted set once a proof was parsed
\* against it
ParseFinalizedStorageProof_consuming ==
  /\ pc = "parse_finalized_storage_proof"
  /\ LET r == parse_finalized_storage_proof(imported_headers, proof.bridged_header_hash,
                                            proof.storage_proof)
     IN  IF r.ok
           THEN /\ pc' = "count"
                /\ UNCHANGED result
           ELSE Return(ReturnErr(HeaderChain(r.error)))
  /\ imported_headers' =
       [h \in DOMAIN imported_headers \ {proof.bridged_header_hash} |-> imported_headers[h]]
  /\ checks' = Append(checks, "header")
  /\ UNCHANGED <<proof, messages_count, visited, nonce, messages, lane_state>>
  /\ UNCHANGED env_vars

\* the call of parse_finalized_storage_proof and the mapping of its error
ParseFinalizedStorageProof ==
  /\ pc = "parse_finalized_storage_proof"
  /\ LET r == parse_finalized_storage_proof(imported_headers, proof.bridged_header_hash,
                                            proof.storage_proof)
     IN  IF r.ok
           THEN /\ pc' = "count"
                /\ UNCHANGED result
           ELSE Return(ReturnErr(HeaderChain(r.error)))
  /\ checks' = Append(checks, "header")
  /\ UNCHANGED <<imported_headers, proof, messages_count, visited, nonce, messages, lane_state>>
  /\ UNCHANGED env_vars

\* the count check and the allocation of the messages vector
CheckMessagesCount ==
  /\ pc = "count"
  /\ LET r == messages_in_the_proof(proof.nonces_start, proof.nonces_end, messages_count)
     IN  IF r.ok
           THEN /\ pc' = "messages"
                /\ messages' = <<>>
                /\ nonce' = proof.nonces_start
                /\ UNCHANGED result
           ELSE /\ Return(ReturnErr(r.error))
                /\ UNCHANGED <<messages, nonce>>
  /\ checks' = Append(checks, "count")
  /\ UNCHANGED <<imported_headers, proof, messages_count, visited, lane_state>>
  /\ UNCHANGED env_vars

\* one iteration of the message loop
ReadMessagePayload ==
  /\ pc = "messages"
  /\ has_next_nonce(nonce, proof.nonces_end)
  /\ LET key == MessageKey(proof.lane, nonce)
         r == read_and_decode_message_payload(proof.storage_proof, key)
     IN  /\ visited' = visited \cup {message_key(key.lane_id, key.nonce)}
         /\ IF r.ok
              THEN /\ messages' = Append(messages, Message(key, r.value))
                   /\ nonce' = nonce + 1
                   /\ UNCHANGED <<pc, result>>
              ELSE /\ Return(ReturnErr(r.error))
                   /\ UNCHANGED <<messages, nonce>>
  /\ checks' = Append(checks, "message")
  /\ UNCHANGED <<imported_headers, proof, messages_count, lane_state>>
  /\ UNCHANGED env_vars

\* after the loop: the read of the outbound lane state
ReadOutboundLaneData ==
  /\ pc = "messages"
  /\ ~has_next_nonce(nonce, proof.nonces_end)
  /\ LET r == read_and_decode_outbound_lane_data(proof.storage_proof, proof.lane)
     IN  /\ visited' = visited \cup {outbound_lane_data_key(proof.lane)}
         /\ IF r.ok
              THEN /\ lane_state' = r.value
                   /\ pc' = "empty"
                   /\ UNCHANGED result
              ELSE /\ Return(ReturnErr(r.error))
                   /\ UNCHANGED lane_state
  /\ checks' = Append(checks, "lane_state")
  /\ UNCHANGED <<imported_headers, proof, messages_count, nonce, messages>>
  /\ UNCHANGED env_vars

\* mutant: the unused-nodes check comes before the emptiness check
CheckEmptyProof_after_unused_nodes ==
  /\ pc = "empty"
  /\ LET r == ensure_no_unused_nodes(proof.storage_proof, visited)
     IN  IF ~r.ok
           THEN Return(ReturnErr(StorageProof(r.error)))
           ELSE IF is_empty_proof(lane_state, messages)
                  THEN Return(ReturnErr(EmptyMessageProof))
                  ELSE /\ pc' = "unused_nodes"
                       /\ UNCHANGED result
  /\ checks' = Append(checks, "empty")
  /\ UNCHANGED <<imported_headers, proof, messages_count, visited, nonce, messages, lane_state>>
  /\ UNCHANGED env_vars

\* the emptiness check
CheckEmptyProof ==
  /\ pc = "empty"
  /\ IF is_empty_proof(lane_state, messages)
       THEN Return(ReturnErr(EmptyMessageProof))
       ELSE /\ pc' = "unused_nodes"
            /\ UNCHANGED result
  /\ checks' = Append(checks, "empty")
  /\ UNCHANGED <<imported_headers, proof, messages_count, visited, nonce, messages, lane_state>>
  /\ UNCHANGED env_vars

\* mutant: the outcome of the unused-nodes check is dropped
EnsureNoUnusedNodes_unchecked ==
  /\ pc = "unused_nodes"
  /\ Return(ReturnOk({ProvedLaneMessages(proof.lane, lane_state, messages)}))
  /\ checks' = Append(checks, "unused_nodes")
  /\ UNCHANGED <<imported_headers, proof, messages_count, visited, nonce, messages, lane_state>>
  /\ UNCHANGED env_vars

\* the unused-nodes check and the assembly of the result
EnsureNoUnusedNodes ==
  /\ pc = "unused_nodes"
  /\ LET r == ensure_no_unused_nodes(proof.storage_proof, visited)
     IN  IF r.ok
           THEN Return(ReturnOk({ProvedLaneMessages(proof.lane, lane_state, messages)}))
           ELSE Return(ReturnErr(StorageProof(r.error)))
  /\ checks' = Append(checks, "unused_nodes")
  /\ UNCHANGED <<imported_headers, proof, messages_count, visited, nonce, messages, lane_state>>
  /\ UNCHANGED env_vars

Init ==
  /\ imported_headers = [h \in {"h1"} |-> "r1"]
  /\ proof \in FromBridgedChainMessagesProofs
  /\ messages_count \in 0..(MaxNonce + 1)
  /\ pc = "parse_finalized_storage_proof"
  /\ visited = {}
  /\ nonce = 0
  /\ messages = <<>>
  /\ lane_state = None
  /\ checks = <<>>
  /\ result = Pending
  /\ EnvIdle

Next ==
  \/ ParseFinalizedStorageProof
  \/ CheckMessagesCount
  \/ ReadMessagePayload
  \/ ReadOutboundLaneData
  \/ CheckEmptyProof
  \/ EnsureNoUnusedNodes

Spec == Init /\ [][Next]_vars

(***************************************************************************)
(* source::verify_messages_delivery_proof, with the same call state:       *)
(* `proof` is the FromBridgedChainMessagesDeliveryProof, `lane_state` the  *)
(* inbound lane data read from it.                                         *)
(***************************************************************************)
\* mutant: the inbound lane data is read as an optional value
read_and_decode_inbound_lane_data_or_default(sp, lane_id) ==
  LET r == read_and_decode_mandatory_value(sp, inbound_lane_data_key(lane_id),
                                           "InboundLaneData")
  IN  IF r.ok THEN r ELSE Ok(InboundLaneData(<<>>, 0))

\* the mandatory read of the inbound lane data and the mapping of its error
read_and_decode_inbound_lane_data(sp, lane_id) ==
  LET r == read_and_decode_mandatory_value(sp, inbound_lane_data_key(lane_id),
                                           "InboundLaneData")
  IN  IF r.ok THEN r ELSE [r EXCEPT !.error = InboundLaneStorage(r.error)]

\* the call of parse_finalized_storage_proof and the mapping of its error
DeliveryParseFinalizedStorageProof ==
  /\ pc = "delivery_parse_finalized_storage_proof"
  /\ LET r == parse_finalized_storage_proof(imported_headers, proof.bridged_header_hash,
                                            proof.storage_proof)
     IN  IF r.ok
           THEN /\ pc' = "delivery_read"
                /\ UNCHANGED result
           ELSE Return(ReturnErr(HeaderChain(r.error)))
  /\ checks' = Append(checks, "header")
  /\ UNCHANGED <<imported_headers, proof, messages_count, visited, nonce, messages, lane_state>>
  /\ UNCHANGED env_vars

\* the read of the inbound lane data
ReadInboundLaneData ==
  /\ pc = "delivery_read"
  /\ LET r == read_and_decode_inbound_lane_data(proof.storage_proof, proof.lane)
     IN  /\ visited' = visited \cup {inbound_lane_data_key(proof.lane)}
         /\ IF r.ok
              THEN /\ lane_state' = Some(r.value)
                   /\ pc' = "delivery_unused_nodes"
                   /\ UNCHANGED result
              ELSE /\ Return(ReturnErr(r.error))
                   /\ UNCHANGED lane_state
  /\ checks' = Append(checks, "inbound_lane_data")
  /\ UNCHANGED <<imported_headers, proof, messages_count, nonce, messages>>
  /\ UNCHANGED env_vars

\* mutant: the outcome of the unused-nodes check is dropped
DeliveryEnsureNoUnusedNodes_unchecked ==
  /\ pc = "delivery_unused_nodes"
  /\ Return(ReturnOk({<<proof.lane, lane_state[1]>>}))
  /\ checks' = Append(checks, "unused_nodes")
  /\ UNCHANGED <<imported_headers, proof, messages_count, visited, nonce, messages, lane_state>>
  /\ UNCHANGED env_vars

\* the unused-nodes check and the result (lane, inbound_lane_data)
DeliveryEnsureNoUnusedNodes ==
  /\ pc = "delivery_unused_nodes"
  /\ LET r == ensure_no_unused_nodes(proof.storage_proof, visited)
     IN  IF r.ok
           THEN Return(ReturnOk({<<proof.lane, lane_state[1]>>}))
           ELSE Return(ReturnErr(StorageProof(r.error)))
  /\ checks' = Append(checks, "unused_nodes")
  /\ UNCHANGED <<imported_headers, proof, messages_count, visited, nonce, messages, lane_state>>
  /\ UNCHANGED env_vars

InitDelivery ==
  /\ imported_headers = [h \in {"h1"} |-> "r1"]
  /\ proof \in FromBridgedChainMessagesDeliveryProofs
  /\ messages_count = 0
  /\ pc = "delivery_parse_finalized_storage_proof"
  /\ visited = {}
  /\ nonce = 0
  /\ messages = <<>>
  /\ lane_state = None
  /\ checks = <<>>
  /\ result = Pending
  /\ EnvIdle

NextDelivery ==
  \/ DeliveryParseFinalizedStorageProof
  \/ ReadInboundLaneData
  \/ DeliveryEnsureNoUnusedNodes

SpecDelivery == InitDelivery /\ [][NextDelivery]_vars

(***************************************************************************)
(* source::FromThisChainMessageVerifier::verify_message                    *)
(***************************************************************************)
\* bound on maximal_pending_messages_at_outbound_lane()
MaxPending == 2
\* bound on the nonces a lane generates
MaxGenerated == 4

Origins == {"Root", "Signed"}
\* FromThisChainMessagePayload values handed to verify_message
RegularPayloads == {<<42>>, <<42, 42>>}

MESSAGE_REJECTED_BY_OUTBOUND_LANE == "The outbound message lane has rejected the message."
TOO_MANY_PENDING_MESSAGES == "Too many pending messages at the lane."

\* the hooks of ThisChainWithMessages
ThisChains ==
  [is_message_accepted : SUBSET (Origins \X Lanes),
   maximal_pending_messages : 0..MaxPending \cup {MessageNonceMAX}]

is_message_accepted(origin, lane) == <<origin, lane>> \in this_chain.is_message_accepted
maximal_pending_messages_at_outbound_lane == this_chain.maximal_pending_messages

\* mutant: subtraction modulo 2^w
wrapping_sub(a, b) == (a - b + MessageNonceMAX + 1) % (MessageNonceMAX + 1)

saturating_sub(a, b) == IF a >= b THEN a - b ELSE 0

\* mutant: the Root origin passes a blocked lane
verify_message_root_exempt(submitter, lane, lane_outbound_data, payload) ==
  IF submitter # "Root" /\ ~is_message_accepted(submitter, lane)
    THEN Err(MESSAGE_REJECTED_BY_OUTBOUND_LANE)
    ELSE IF saturating_sub(lane_outbound_data.latest_generated_nonce,
                           lane_outbound_data.latest_received_nonce)
              > maximal_pending_messages_at_outbound_lane
           THEN Err(TOO_MANY_PENDING_MESSAGES)
           ELSE Ok(<<>>)

\* mutant: the pending messages are not counted
verify_message_unbounded(submitter, lane, lane_outbound_data, payload) ==
  IF ~is_message_accepted(submitter, lane)
    THEN Err(MESSAGE_REJECTED_BY_OUTBOUND_LANE)
    ELSE Ok(<<>>)

verify_message(submitter, lane, lane_outbound_data, payload) ==
  IF ~is_message_accepted(submitter, lane)
    THEN Err(MESSAGE_REJECTED_BY_OUTBOUND_LANE)
    ELSE LET max_pending_messages == maximal_pending_messages_at_outbound_lane
             pending_messages ==
               saturating_sub(lane_outbound_data.latest_generated_nonce,
                              lane_outbound_data.latest_received_nonce)
         IN  IF pending_messages > max_pending_messages
               THEN Err(TOO_MANY_PENDING_MESSAGES)
               ELSE Ok(<<>>)

\* a return of the called function
Returned(v) == [returned |-> TRUE, value |-> v]

\* nonces of the lane states handed to verify_message: small ones and the
\* largest ones
NonceSamples == 0..(MaxPending + 2) \cup {MessageNonceMAX - 1, MessageNonceMAX}

VerifyMessageCalls ==
  [fn : {"verify_message"},
   submitter : Origins,
   lane : Lanes,
   lane_outbound_data : {OutboundLaneData(1, r, g) : r \in NonceSamples, g \in NonceSamples},
   payload : RegularPayloads]

VerifyMessage ==
  /\ call.fn = "verify_message"
  /\ ret = NoReturn
  /\ ret' = Returned(verify_message(call.submitter, call.lane, call.lane_outbound_data,
                                    call.payload))
  /\ UNCHANGED <<this_chain, bridged_chain, outbound_lane, call, usize_max, previous, message,
                 xcm_weigher, executed>>
  /\ UNCHANGED proof_vars

\* the state of a proof verification, unused by the other functions
ProofIdle ==
  /\ imported_headers = [h \in {"h1"} |-> "r1"]
  /\ proof = [bridged_header_hash |-> "h1"]
  /\ messages_count = 0
  /\ pc = "done"
  /\ visited = {}
  /\ nonce = 0
  /\ messages = <<>>
  /\ lane_state = None
  /\ checks = <<>>
  /\ result = Pending

InitVerifyMessage ==
  /\ ProofIdle
  /\ this_chain \in ThisChains
  /\ call \in VerifyMessageCalls
  /\ bridged_chain = [max_extrinsic_size |-> 0, verify_dispatch_weight |-> {}]
  /\ outbound_lane = [l \in Lanes |-> OutboundLaneData(1, 0, 0)]
  /\ ret = NoReturn
  /\ usize_max = MessageNonceMAX
  /\ previous = NoReturn
  /\ message = <<>>
  /\ xcm_weigher = <<>>
  /\ executed = <<>>

NextVerifyMessage == VerifyMessage

SpecVerifyMessage == InitVerifyMessage /\ [][NextVerifyMessage]_vars

(***************************************************************************)
(* An outbound lane that admits the messages verify_message accepts.  The  *)
(* lane itself is pallet-bridge-messages: send_message hands the lane's    *)
(* data to verify_message before the new nonce is generated, and a         *)
(* delivery confirmation raises latest_received_nonce.                     *)
(***************************************************************************)
SendMessage(submitter, lane, payload) ==
  /\ outbound_lane[lane].latest_generated_nonce < MaxGenerated
  /\ LET r == verify_message(submitter, lane, outbound_lane[lane], payload)
     IN  /\ ret' = Returned(r)
         /\ IF r.ok
              THEN outbound_lane' =
                     [outbound_lane EXCEPT ![lane].latest_generated_nonce = @ + 1]
              ELSE UNCHANGED outbound_lane
  /\ UNCHANGED <<this_chain, bridged_chain, call, usize_max, previous, message, xcm_weigher, executed>>
  /\ UNCHANGED proof_vars

ConfirmDelivery(lane, latest_delivered_nonce) ==
  /\ latest_delivered_nonce > outbound_lane[lane].latest_received_nonce
  /\ latest_delivered_nonce <= outbound_lane[lane].latest_generated_nonce
  /\ outbound_lane' = [outbound_lane EXCEPT ![lane].latest_received_nonce =
                                               latest_delivered_nonce]
  /\ UNCHANGED <<this_chain, bridged_chain, call, ret, usize_max, previous, message, xcm_weigher,
                 executed>>
  /\ UNCHANGED proof_vars

InitLane ==
  /\ ProofIdle
  /\ this_chain \in [is_message_accepted : SUBSET (Origins \X Lanes),
                      maximal_pending_messages : 0..MaxPending]
  /\ bridged_chain = [max_extrinsic_size |-> 0, verify_dispatch_weight |-> {}]
  /\ outbound_lane = [l \in Lanes |-> OutboundLaneData(1, 0, 0)]
  /\ call = NoCall
  /\ ret = NoReturn
  /\ usize_max = MessageNonceMAX
  /\ previous = NoReturn
  /\ message = <<>>
  /\ xcm_weigher = <<>>
  /\ executed = <<>>

NextLane ==
  \/ \E submitter \in Origins, lane \in Lanes, payload \in RegularPayloads :
       SendMessage(submitter, lane, payload)
  \/ \E lane \in Lanes, n \in 1..MaxGenerated : ConfirmDelivery(lane, n)

SpecLane == InitLane /\ [][NextLane]_vars

(***************************************************************************)
(* source::verify_chain_message, source::maximal_message_size and          *)
(* target::maximal_incoming_message_size.  u32 is scaled to 4 bits.        *)
(***************************************************************************)
U32MAX == 15
\* bound on the length of a FromThisChainMessagePayload
MaxPayloadLen == 5

\* payloads of every length up to the bound, as the tests build them
ChainPayloads == {[i \in 1..n |-> 42] : n \in 0..MaxPayloadLen}

\* the hooks of BridgedChainWithMessages and the extrinsic size of its chain
BridgedChains ==
  [max_extrinsic_size : 0..U32MAX,
   verify_dispatch_weight : SUBSET ChainPayloads]

verify_dispatch_weight(message_payload) ==
  message_payload \in bridged_chain.verify_dispatch_weight

\* mutant: the multiplication comes first
maximal_incoming_message_size_mul_first(maximal_extrinsic_size) ==
  (maximal_extrinsic_size * 2) \div 3

maximal_incoming_message_size(maximal_extrinsic_size) ==
  (maximal_extrinsic_size \div 3) * 2

maximal_message_size == maximal_incoming_message_size(bridged_chain.max_extrinsic_size)

\* mutant: a payload of the maximal size is too large
verify_chain_message_exclusive(payload) ==
  IF ~verify_dispatch_weight(payload) THEN Err(InvalidMessageWeight)
  ELSE IF Len(payload) >= maximal_message_size THEN Err(MessageTooLarge)
  ELSE Ok(<<>>)

\* mutant: the size is checked before the weight
verify_chain_message_size_first(payload) ==
  IF Len(payload) > maximal_message_size THEN Err(MessageTooLarge)
  ELSE IF ~verify_dispatch_weight(payload) THEN Err(InvalidMessageWeight)
  ELSE Ok(<<>>)

verify_chain_message(payload) ==
  IF ~verify_dispatch_weight(payload) THEN Err(InvalidMessageWeight)
  ELSE IF Len(payload) > maximal_message_size THEN Err(MessageTooLarge)
  ELSE Ok(<<>>)

VerifyChainMessageCalls == [fn : {"verify_chain_message"}, payload : ChainPayloads]
MaximalIncomingMessageSizeCalls ==
  [fn : {"maximal_incoming_message_size"}, maximal_extrinsic_size : 0..U32MAX]

VerifyChainMessage ==
  /\ call.fn = "verify_chain_message"
  /\ ret = NoReturn
  /\ ret' = Returned(verify_chain_message(call.payload))
  /\ UNCHANGED <<this_chain, bridged_chain, outbound_lane, call, usize_max, previous, message,
                 xcm_weigher, executed>>
  /\ UNCHANGED proof_vars

MaximalIncomingMessageSize ==
  /\ call.fn = "maximal_incoming_message_size"
  /\ ret = NoReturn
  /\ ret' = Returned(maximal_incoming_message_size(call.maximal_extrinsic_size))
  /\ UNCHANGED <<this_chain, bridged_chain, outbound_lane, call, usize_max, previous, message,
                 xcm_weigher, executed>>
  /\ UNCHANGED proof_vars

InitChainMessage ==
  /\ ProofIdle
  /\ this_chain = [is_message_accepted |-> {}, maximal_pending_messages |-> 0]
  /\ bridged_chain \in BridgedChains
  /\ call \in VerifyChainMessageCalls \cup MaximalIncomingMessageSizeCalls
  /\ call.fn = "maximal_incoming_message_size" =>
       bridged_chain = [max_extrinsic_size |-> call.maximal_extrinsic_size,
                        verify_dispatch_weight |-> {}]
  /\ outbound_lane = [l \in Lanes |-> OutboundLaneData(1, 0, 0)]
  /\ ret = NoReturn
  /\ usize_max = MessageNonceMAX
  /\ previous = NoReturn
  /\ message = <<>>
  /\ xcm_weigher = <<>>
  /\ executed = <<>>

NextChainMessage ==
  \/ VerifyChainMessage
  \/ MaximalIncomingMessageSize

SpecChainMessage == InitChainMessage /\ [][NextChainMessage]_vars

(***************************************************************************)
(* Size::size of FromBridgedChainMessagesProof and of                      *)
(* FromBridgedChainMessagesDeliveryProof.  Here the storage proof is the   *)
(* sequence of its nodes, each a sequence of bytes; usize_max is the       *)
(* largest usize of the build: u32::MAX on wasm32, u64::MAX natively.      *)
(***************************************************************************)
\* bound on the number of nodes of a storage proof
MaxNodes == 3

\* lengths of the nodes: empty, short, two that add up to U32MAX or one
\* more, and one that a 64-bit sum overflows with
NodeLengths == {0, 1, U32MAX \div 2, U32MAX \div 2 + 1, MessageNonceMAX \div 2 + 1}
Nodes == {[i \in 1..n |-> 0] : n \in NodeLengths}
NodeSequences == UNION {[1..n -> Nodes] : n \in 0..MaxNodes}

SizedProofs ==
  [kind : {"FromBridgedChainMessagesProof"},
   bridged_header_hash : HeaderHashes,
   storage_proof : NodeSequences,
   lane : Lanes,
   nonces_start : 0..1,
   nonces_end : 0..1]
  \cup
  [kind : {"FromBridgedChainMessagesDeliveryProof"},
   bridged_header_hash : HeaderHashes,
   storage_proof : NodeSequences,
   lane : Lanes]

usize_saturating_add(a, b) == IF a > usize_max - b THEN usize_max ELSE a + b

\* storage_proof.iter().fold(0usize, |sum, node| sum.saturating_add(node.len()))
RECURSIVE fold_saturating_add(_, _)
fold_saturating_add(sum, nodes) ==
  IF nodes = <<>> THEN sum
  ELSE fold_saturating_add(usize_saturating_add(sum, Len(Head(nodes))), Tail(nodes))

u32_try_from(n) == IF n <= U32MAX THEN Ok(n) ELSE Err("TryFromIntError")
unwrap_or(r, default) == IF r.ok THEN r.value ELSE default

\* mutant: the sum is cast to u32
storage_proof_size_truncating(storage_proof) ==
  fold_saturating_add(0, storage_proof) % (U32MAX + 1)

\* the body shared by the two implementations of size()
storage_proof_size(storage_proof) ==
  unwrap_or(u32_try_from(fold_saturating_add(0, storage_proof)), U32MAX)

FromBridgedChainMessagesProof_size(self) == storage_proof_size(self.storage_proof)
FromBridgedChainMessagesDeliveryProof_size(self) == storage_proof_size(self.storage_proof)

MessagesProofSize ==
  /\ proof.kind = "FromBridgedChainMessagesProof"
  /\ ret = NoReturn
  /\ call' = [fn |-> "size"]
  /\ ret' = Returned(FromBridgedChainMessagesProof_size(proof))
  /\ UNCHANGED <<this_chain, bridged_chain, outbound_lane, usize_max, previous, message, xcm_weigher,
                 executed>>
  /\ UNCHANGED proof_vars

DeliveryProofSize ==
  /\ proof.kind = "FromBridgedChainMessagesDeliveryProof"
  /\ ret = NoReturn
  /\ call' = [fn |-> "size"]
  /\ ret' = Returned(FromBridgedChainMessagesDeliveryProof_size(proof))
  /\ UNCHANGED <<this_chain, bridged_chain, outbound_lane, usize_max, previous, message, xcm_weigher,
                 executed>>
  /\ UNCHANGED proof_vars

InitSize ==
  /\ imported_headers = [h \in {"h1"} |-> "r1"]
  /\ proof \in SizedProofs
  /\ usize_max \in {U32MAX, MessageNonceMAX}
  /\ previous = NoReturn
  \* a node is no longer than the largest usize
  /\ \A i \in 1..Len(proof.storage_proof) : Len(proof.storage_proof[i]) <= usize_max
  /\ messages_count = 0
  /\ pc = "done"
  /\ visited = {}
  /\ nonce = 0
  /\ messages = <<>>
  /\ lane_state = None
  /\ checks = <<>>
  /\ result = Pending
  /\ this_chain = [is_message_accepted |-> {}, maximal_pending_messages |-> 0]
  /\ bridged_chain = [max_extrinsic_size |-> 0, verify_dispatch_weight |-> {}]
  /\ outbound_lane = [l \in Lanes |-> OutboundLaneData(1, 0, 0)]
  /\ call = NoCall
  /\ ret = NoReturn
  /\ message = <<>>
  /\ xcm_weigher = <<>>
  /\ executed = <<>>

NextSize ==
  \/ MessagesProofSize
  \/ DeliveryProofSize

SpecSize == InitSize /\ [][NextSize]_vars

(***************************************************************************)
(* target::FromBridgedChainMessageDispatch: dispatch_weight and dispatch.  *)
(* A Weight is a number, Weight::zero() is 0.  The weigher and the         *)
(* executor are the XCM crates: the weigher gives a weight or an error for *)
(* each program and, taking it by `&mut`, may leave another program behind *)
(* when it fails.                                                          *)
(***************************************************************************)
\* bound on the weights the weigher computes
MaxWeight == 2

Xcms == {"xcm1", "xcm2"}
Weight_zero == 0

FromBridgedChainMessagePayload(xcm, weight) == [xcm |-> xcm, weight |-> weight]
DispatchMessage(lane_id, nonce_, payload) ==
  [key |-> MessageKey(lane_id, nonce_), data |-> [payload |-> payload]]

\* messages as verify_messages_proof hands them over: the payload decoded
\* (weight unknown) or not
DispatchMessages ==
  {DispatchMessage(l, n, p) :
     l \in Lanes, n \in 1..2,
     p \in {Err("codec::Error")}
            \cup {Ok(FromBridgedChainMessagePayload(x, None)) : x \in Xcms}}

\* XcmWeigher::weight(&mut xcm): the result and the program left behind
XcmWeighers ==
  [Xcms -> {[weight |-> Ok(w), xcm |-> x] : w \in 0..MaxWeight, x \in Xcms}
           \cup {[weight |-> Err("()"), xcm |-> x] : x \in Xcms}]

\* Result::unwrap_or_else and Option::unwrap_or_else
unwrap_or_else(r, default) == IF r.ok THEN r.value ELSE default
option_unwrap_or_else(o, default) == IF o = None THEN default ELSE o[1]

\* mutant: a weigher failure gives the largest weight
dispatch_weight_maximal_on_failure(m) ==
  IF m.data.payload.ok
    THEN LET payload == m.data.payload.value
             weighed == xcm_weigher[payload.xcm]
             weight == unwrap_or_else(weighed.weight, MaxWeight + 1)
         IN  [message |->
                [m EXCEPT !.data.payload.value =
                            FromBridgedChainMessagePayload(weighed.xcm, Some(weight))],
              weight |-> weight]
    ELSE [message |-> m, weight |-> Weight_zero]

\* the message after the call and the weight returned
dispatch_weight(m) ==
  IF m.data.payload.ok
    THEN LET payload == m.data.payload.value
             weighed == xcm_weigher[payload.xcm]
             weight == unwrap_or_else(weighed.weight, Weight_zero)
         IN  [message |->
                [m EXCEPT !.data.payload.value =
                            FromBridgedChainMessagePayload(weighed.xcm, Some(weight))],
              weight |-> weight]
    ELSE [message |-> m, weight |-> Weight_zero]

MessageDispatchResult(unspent_weight) ==
  [unspent_weight |-> unspent_weight, dispatch_level_result |-> <<>>]

\* the call of XcmExecutor::execute_xcm_in_credit that dispatch makes
execute_xcm_in_credit(message_id, xcm, weight_limit) ==
  [message_id |-> message_id, xcm |-> xcm, weight_limit |-> weight_limit]

DispatchWeight ==
  /\ call.fn # "dispatch"
  /\ LET r == dispatch_weight(message)
     IN  /\ message' = r.message
         /\ ret' = Returned(r.weight)
  /\ call' = [fn |-> "dispatch_weight", message |-> message]
  /\ UNCHANGED <<this_chain, bridged_chain, outbound_lane, usize_max, previous, xcm_weigher, executed>>
  /\ UNCHANGED proof_vars

Dispatch ==
  /\ call.fn # "dispatch"
  /\ LET message_id == <<message.key.lane_id, message.key.nonce>>
         payload == message.data.payload
     IN  IF payload.ok
           THEN executed' = Append(executed,
                  execute_xcm_in_credit(message_id, payload.value.xcm,
                    option_unwrap_or_else(payload.value.weight, Weight_zero)))
           ELSE UNCHANGED executed
  /\ ret' = Returned(MessageDispatchResult(Weight_zero))
  /\ call' = [fn |-> "dispatch", message |-> message]
  /\ UNCHANGED <<this_chain, bridged_chain, outbound_lane, usize_max, previous, message, xcm_weigher>>
  /\ UNCHANGED proof_vars

InitDispatch ==
  /\ ProofIdle
  /\ this_chain = [is_message_accepted |-> {}, maximal_pending_messages |-> 0]
  /\ bridged_chain = [max_extrinsic_size |-> 0, verify_dispatch_weight |-> {}]
  /\ outbound_lane = [l \in Lanes |-> OutboundLaneData(1, 0, 0)]
  /\ call = NoCall
  /\ ret = NoReturn
  /\ usize_max = MessageNonceMAX
  /\ previous = NoReturn
  /\ message \in DispatchMessages
  /\ xcm_weigher \in XcmWeighers
  /\ executed = <<>>

NextDispatch ==
  \/ DispatchWeight
  \/ Dispatch

SpecDispatch == InitDispatch /\ [][NextDispatch]_vars

(***************************************************************************)
(* The four verifiers invoked twice with the same arguments, the same      *)
(* hooks and the same trusted header set.  `previous` keeps what the first *)
(* invocation returned.  The locals of an invocation (reader, loop         *)
(* variable, messages vector) are created by the invocation itself.        *)
(***************************************************************************)
\* the locals at the entry of verify_messages_proof and of
\* verify_messages_delivery_proof
FreshLocals ==
  /\ visited = {}
  /\ nonce = 0
  /\ messages = <<>>
  /\ lane_state = None
  /\ checks = <<>>
  /\ result = Pending

\* messages proofs submitted twice: every header, root, range, message and
\* lane-state node, on the lane "test"
TwiceMessagesProofs ==
  {p \in FromBridgedChainMessagesProofs : p.lane = "test" /\ p.storage_proof.extra = {}}

IsMessagesProof == "nonces_start" \in DOMAIN proof

\* the second invocation of a proof verifier, with the arguments of the first
VerifyProofAgain ==
  /\ pc = "done"
  /\ result.returned
  /\ previous = NoReturn
  /\ previous' = Returned(result)
  /\ pc' = IF IsMessagesProof THEN "parse_finalized_storage_proof"
           ELSE "delivery_parse_finalized_storage_proof"
  /\ visited' = {}
  /\ nonce' = 0
  /\ messages' = <<>>
  /\ lane_state' = None
  /\ checks' = <<>>
  /\ result' = Pending
  /\ UNCHANGED <<imported_headers, proof, messages_count>>
  /\ UNCHANGED <<this_chain, bridged_chain, outbound_lane, call, ret, usize_max, message,
                 xcm_weigher, executed>>

\* the second invocation of verify_message, with the arguments of the first
VerifyMessageAgain ==
  /\ call.fn = "verify_message"
  /\ ret.returned
  /\ previous = NoReturn
  /\ previous' = ret
  /\ ret' = Returned(verify_message(call.submitter, call.lane, call.lane_outbound_data,
                                    call.payload))
  /\ UNCHANGED <<this_chain, bridged_chain, outbound_lane, call, usize_max, message,
                 xcm_weigher, executed>>
  /\ UNCHANGED proof_vars

\* the second invocation of verify_chain_message, with the payload of the first
VerifyChainMessageAgain ==
  /\ call.fn = "verify_chain_message"
  /\ ret.returned
  /\ previous = NoReturn
  /\ previous' = ret
  /\ ret' = Returned(verify_chain_message(call.payload))
  /\ UNCHANGED <<this_chain, bridged_chain, outbound_lane, call, usize_max, message,
                 xcm_weigher, executed>>
  /\ UNCHANGED proof_vars

InitTwice ==
  \/ /\ imported_headers = [h \in {"h1"} |-> "r1"]
     /\ proof \in TwiceMessagesProofs
     /\ messages_count \in 0..(MaxNonce + 1)
     /\ pc = "parse_finalized_storage_proof"
     /\ FreshLocals
     /\ EnvIdle
  \/ InitDelivery
  \/ InitVerifyMessage
  \/ InitChainMessage /\ call.fn = "verify_chain_message"

NextTwice ==
  \/ Next
  \/ NextDelivery
  \/ VerifyMessage
  \/ VerifyChainMessage
  \/ VerifyProofAgain
  \/ VerifyMessageAgain
  \/ VerifyChainMessageAgain

SpecTwice == InitTwice /\ [][NextTwice]_vars

(***************************************************************************)
(* target::verify_messages_proof on ranges up to the largest nonce and on  *)
(* declared counts up to the largest u32.                                  *)
(***************************************************************************)
\* nonces at both ends of the nonce type and around the largest u32
ExtremeNonces ==
  {0, 1, MaxNonce, U32MAX - 1, U32MAX, U32MAX + 1, MessageNonceMAX - 1, MessageNonceMAX}
\* declared counts: messages_count is a u32
ExtremeCounts == {0, 1, 2, MaxNonce + 1, U32MAX - 1, U32MAX}

ExtremeProofs ==
  [bridged_header_hash : HeaderHashes,
   storage_proof :
     [root : StateRoots,
      lane : {"test"},
      messages : [0..MaxNonce -> {None, Some(encode_payload(<<7>>))}],
      outbound_lane_data : {None} \cup {Some(encode_lane_data(d)) : d \in LaneStates},
      inbound_lane_data : {None},
      extra : {{}}],
   lane : {"test"},
   nonces_start : ExtremeNonces,
   nonces_end : ExtremeNonces]

InitExtreme ==
  /\ imported_headers = [h \in {"h1"} |-> "r1"]
  /\ proof \in ExtremeProofs
  /\ messages_count \in ExtremeCounts
  /\ pc = "parse_finalized_storage_proof"
  /\ FreshLocals
  /\ EnvIdle

SpecExtreme == InitExtreme /\ [][Next]_vars

(***************************************************************************)
(* Vocabulary of the properties, stated on the submitted proof itself.     *)
(***************************************************************************)
Done == pc = "done"

\* the header hash is in the trusted set and the proof hashes to its root
HeaderKnown == proof.bridged_header_hash \in DOMAIN imported_headers
RootMatches ==
  HeaderKnown /\ proof.storage_proof.root = imported_headers[proof.bridged_header_hash]

Inverted == proof.nonces_end < proof.nonces_start
ClaimedNonces == proof.nonces_start..proof.nonces_end
RangeLength == IF Inverted THEN 0 ELSE proof.nonces_end - proof.nonces_start + 1

\* bytes the proof carries under the message key (proof.lane, n)
StoredMessage(n) ==
  IF proof.storage_proof.lane = proof.lane /\ n \in DOMAIN proof.storage_proof.messages
    THEN proof.storage_proof.messages[n]
    ELSE None
\* bytes the proof carries under the outbound-lane-data key of proof.lane
StoredLaneData ==
  IF proof.storage_proof.lane = proof.lane THEN proof.storage_proof.outbound_lane_data
  ELSE None

MessageMissing(n) == StoredMessage(n) = None
MessageValid(n) == \E p \in Payloads : StoredMessage(n) = Some(encode_payload(p))
MessageUndecodable(n) == ~MessageMissing(n) /\ ~MessageValid(n)
AllMessagesValid == \A n \in ClaimedNonces : MessageValid(n)

LaneDataMissing == StoredLaneData = None
LaneDataValid == \E d \in LaneStates : StoredLaneData = Some(encode_lane_data(d))
LaneDataUndecodable == ~LaneDataMissing /\ ~LaneDataValid

\* the proof carries a node that is neither a claimed message, nor the lane
\* state of the proof's lane
CarriesUnclaimedNode ==
  \/ proof.storage_proof.extra # {}
  \/ /\ proof.storage_proof.lane # proof.lane
     /\ \/ proof.storage_proof.outbound_lane_data # None
        \/ \E n \in DOMAIN proof.storage_proof.messages :
             proof.storage_proof.messages[n] # None
  \/ \E n \in DOMAIN proof.storage_proof.messages :
       n \notin ClaimedNonces /\ proof.storage_proof.messages[n] # None

\* the smallest claimed nonce whose value is missing or undecodable
FirstBadNonce ==
  CHOOSE n \in ClaimedNonces :
    /\ ~MessageValid(n)
    /\ \A m \in ClaimedNonces : m < n => MessageValid(m)

(***************************************************************************)
(* C1: whenever verify_messages_proof returns Ok, the result holds exactly *)
(* one lane entry, keyed by the proof's lane; its messages are one per     *)
(* nonce of nonces_start..=nonces_end, ascending, without gap or           *)
(* duplicate, each with key (lane, nonce) and the payload stored under     *)
(* that nonce's message key (no message when the range is inverted).       *)
(***************************************************************************)
C1_OkIsExactlyTheClaimedRange ==
  (Done /\ result.ok) =>
    /\ Cardinality(result.proved) = 1
    /\ \A e \in result.proved :
         /\ e.lane = proof.lane
         /\ Len(e.messages) = RangeLength
         /\ \A i \in 1..Len(e.messages) :
              /\ e.messages[i].key.lane_id = proof.lane
              /\ e.messages[i].key.nonce = proof.nonces_start + (i - 1)
              /\ StoredMessage(proof.nonces_start + (i - 1))
                   = Some(encode_payload(e.messages[i].payload))

\* an accepted proof of three messages with two different payloads
C1_Witness ==
  /\ Done /\ result.ok
  /\ \E e \in result.proved :
       /\ Len(e.messages) = 3
       /\ e.messages[1].payload # e.messages[2].payload

(***************************************************************************)
(* C2: no partial batch.  With a resolved header and a declared count that *)
(* matches the range, a claimed nonce whose value is missing or does not   *)
(* decode makes the call fail with MessageStorage (StorageValueEmpty when  *)
(* the first such value is missing, StorageValueDecodeFailed when it does  *)
(* not decode), whatever the other nonces hold; nothing is returned.       *)
(***************************************************************************)
C2_NoPartialBatch ==
  (Done /\ RootMatches /\ ~Inverted /\ messages_count = RangeLength /\ ~AllMessagesValid) =>
    /\ ~result.ok
    /\ result.proved = {}
    /\ result.error =
         MessageStorage(IF MessageMissing(FirstBadNonce)
                          THEN "StorageValueEmpty" ELSE "StorageValueDecodeFailed")

\* three claimed nonces, only the interior one missing
C2_Witness ==
  /\ Done /\ RootMatches /\ messages_count = 3
  /\ proof.nonces_start = 0 /\ proof.nonces_end = 2
  /\ MessageValid(0) /\ MessageMissing(1) /\ MessageValid(2)
  /\ result.error = MessageStorage("StorageValueEmpty")

(***************************************************************************)
(* C3: with a resolved header and a range that is not inverted, a declared *)
(* count other than nonces_end - nonces_start + 1 is rejected with         *)
(* MessagesCountMismatch, when it is smaller and when it is larger.        *)
(***************************************************************************)
C3_CountMismatchRejected ==
  (Done /\ RootMatches /\ ~Inverted /\ messages_count # RangeLength) =>
    result = ReturnErr(MessagesCountMismatch)

\* a declared count larger than the range, rejected
C3_Witness ==
  /\ Done /\ RootMatches /\ ~Inverted
  /\ messages_count > RangeLength
  /\ AllMessagesValid
  /\ result = ReturnErr(MessagesCountMismatch)

(***************************************************************************)
(* C4: an inverted range counts as zero messages, and a declared count     *)
(* other than the number of messages in the proof is rejected: an          *)
(* inverted range submitted with messages_count # 0 returns                *)
(* MessagesCountMismatch.                                                  *)
(***************************************************************************)
C4_InvertedRangeCountChecked ==
  (Done /\ RootMatches /\ Inverted /\ messages_count # 0) =>
    result = ReturnErr(MessagesCountMismatch)

(***************************************************************************)
(* C5: a lane-state-only proof is valid.  An inverted range, declared with *)
(* zero messages, whose proof carries the outbound lane data of the lane   *)
(* and nothing else, returns Ok: the lane mapped to no message and         *)
(* lane_state = Some(the proved data).                                     *)
(***************************************************************************)
C5_LaneStateOnlyProofAccepted ==
  (Done /\ RootMatches /\ Inverted /\ messages_count = 0 /\ LaneDataValid
     /\ ~CarriesUnclaimedNode) =>
    \E d \in LaneStates :
      /\ StoredLaneData = Some(encode_lane_data(d))
      /\ result = ReturnOk({ProvedLaneMessages(proof.lane, Some(d), <<>>)})

\* the proof of nonces_start = 1, nonces_end = 0 is accepted
C5_Witness ==
  /\ Done /\ result.ok
  /\ proof.nonces_start = 1 /\ proof.nonces_end = 0 /\ messages_count = 0
  /\ \E e \in result.proved : e.messages = <<>> /\ e.lane_state # None

(***************************************************************************)
(* C6: a proof must prove something.  Ok never comes with both no message  *)
(* and lane_state = None; with a resolved header, a passing count check,   *)
(* no message to read and no outbound lane data in the proof, the call     *)
(* returns EmptyMessageProof.                                              *)
(***************************************************************************)
C6_EmptyProofRejected ==
  /\ (Done /\ result.ok) =>
       \A e \in result.proved : ~(e.messages = <<>> /\ e.lane_state = None)
  /\ (Done /\ RootMatches /\ messages_count = RangeLength /\ RangeLength = 0
        /\ LaneDataMissing) =>
       result = ReturnErr(EmptyMessageProof)

\* an empty proof, rejected after the lane state was looked for
C6_Witness ==
  /\ Done /\ RootMatches /\ Inverted /\ messages_count = 0 /\ LaneDataMissing
  /\ proof.storage_proof.lane = proof.lane
  /\ result = ReturnErr(EmptyMessageProof)

C9_UnusedNodesRejected ==
  /\ (Done /\ result.ok) => ~CarriesUnclaimedNode
  /\ (Done /\ RootMatches /\ messages_count = RangeLength /\ AllMessagesValid
        /\ ~LaneDataUndecodable /\ (RangeLength > 0 \/ LaneDataValid)
        /\ CarriesUnclaimedNode) =>
       result = ReturnErr(StorageProof("UnusedNodesInTheProof"))

\* valid messages 0..=1, and the value of nonce 2 left over
C9_Witness ==
  /\ Done /\ RootMatches /\ messages_count = 2
  /\ proof.nonces_start = 0 /\ proof.nonces_end = 1 /\ AllMessagesValid
  /\ proof.storage_proof.extra = {} /\ ~MessageMissing(2)
  /\ result = ReturnErr(StorageProof("UnusedNodesInTheProof"))

StoredInboundLaneData ==
  IF proof.storage_proof.lane = proof.lane THEN proof.storage_proof.inbound_lane_data
  ELSE None

InboundMissing == StoredInboundLaneData = None
InboundValid ==
  \E d \in InboundLaneStates : StoredInboundLaneData = Some(encode_inbound_lane_data(d))
InboundUndecodable == ~InboundMissing /\ ~InboundValid

\* the proof carries a node other than the inbound lane data of its lane
DeliveryCarriesUnclaimedNode ==
  \/ proof.storage_proof.extra # {}
  \/ proof.storage_proof.outbound_lane_data # None
  \/ proof.storage_proof.lane # proof.lane /\ proof.storage_proof.inbound_lane_data # None

(***************************************************************************)
(* C11: verify_messages_delivery_proof returns Ok((lane, data)) only when  *)
(* the header resolves, the inbound lane data of the proof's lane is       *)
(* present and decodes, and no unused node remains; lane is the proof's    *)
(* lane and data the decoded value.  A missing or undecodable value gives  *)
(* InboundLaneStorage(..), a leftover node after a successful read         *)
(* StorageProof(UnusedNodesInTheProof), a header failure HeaderChain(..).  *)
(***************************************************************************)
C11_DeliveryProofVerdicts ==
  Done =>
    /\ result.ok =>
         /\ RootMatches /\ InboundValid /\ ~DeliveryCarriesUnclaimedNode
         /\ \E d \in InboundLaneStates :
              /\ StoredInboundLaneData = Some(encode_inbound_lane_data(d))
              /\ result.proved = {<<proof.lane, d>>}
    /\ (RootMatches /\ InboundValid /\ ~DeliveryCarriesUnclaimedNode) => result.ok
    /\ (RootMatches /\ InboundMissing) =>
         result = ReturnErr(InboundLaneStorage("StorageValueEmpty"))
    /\ (RootMatches /\ InboundUndecodable) =>
         result = ReturnErr(InboundLaneStorage("StorageValueDecodeFailed"))
    /\ (RootMatches /\ InboundValid /\ DeliveryCarriesUnclaimedNode) =>
         result = ReturnErr(StorageProof("UnusedNodesInTheProof"))
    /\ ~RootMatches => (~result.ok /\ result.error.variant = "HeaderChain")

\* a delivery proof with one relayer entry, accepted
C11_Witness ==
  /\ Done /\ result.ok
  /\ pc = "done" /\ checks = <<"header", "inbound_lane_data", "unused_nodes">>
  /\ result.proved = {<<proof.lane, InboundLaneData(<<5>>, 1)>>}

(***************************************************************************)
(* Vocabulary for the lane and for verify_message.                         *)
(***************************************************************************)
\* pending messages of a lane, as the difference of its nonces
Pending_at(lane) ==
  outbound_lane[lane].latest_generated_nonce - outbound_lane[lane].latest_received_nonce

VerifyMessageReturned == call.fn = "verify_message" /\ ret.returned
CallAccepted == <<call.submitter, call.lane>> \in this_chain.is_message_accepted
CallGenerated == call.lane_outbound_data.latest_generated_nonce
CallReceived == call.lane_outbound_data.latest_received_nonce

(***************************************************************************)
(* C12: over every interleaving of admitted sends and delivery             *)
(* confirmations, starting from a lane without pending messages, the       *)
(* number of pending messages never exceeds                                *)
(* maximal_pending_messages_at_outbound_lane().                            *)
(***************************************************************************)
C12_PendingNeverExceedsLimit ==
  \A lane \in Lanes : Pending_at(lane) <= this_chain.maximal_pending_messages

(***************************************************************************)
(* C13 as stated: whenever latest_generated_nonce - latest_received_nonce  *)
(* exceeds the limit, verify_message returns TOO_MANY_PENDING_MESSAGES,    *)
(* for every origin, lane and payload.                                     *)
(***************************************************************************)
C13_TooManyPendingForEveryone ==
  (VerifyMessageReturned
     /\ CallGenerated - CallReceived > this_chain.maximal_pending_messages)
    => (~ret.value.ok /\ ret.value.error = TOO_MANY_PENDING_MESSAGES)

(***************************************************************************)
(* C13 amended: for every origin and lane that is_message_accepted         *)
(* accepts, and every payload, verify_message returns                      *)
(* TOO_MANY_PENDING_MESSAGES exactly when latest_generated_nonce -         *)
(* latest_received_nonce exceeds the limit; on a lane that is not accepted *)
(* the same state gives MESSAGE_REJECTED_BY_OUTBOUND_LANE.                 *)
(***************************************************************************)
C13_TooManyPendingOnAcceptedLane ==
  VerifyMessageReturned =>
    /\ CallAccepted =>
         ((CallGenerated - CallReceived > this_chain.maximal_pending_messages)
            <=> (~ret.value.ok /\ ret.value.error = TOO_MANY_PENDING_MESSAGES))
    /\ ~CallAccepted =>
         (~ret.value.ok /\ ret.value.error = MESSAGE_REJECTED_BY_OUTBOUND_LANE)

\* one message over the limit, on an accepted lane
C13_Witness ==
  /\ VerifyMessageReturned /\ CallAccepted
  /\ this_chain.maximal_pending_messages = MaxPending
  /\ CallReceived = 1 /\ CallGenerated = MaxPending + 2
  /\ ret.value.error = TOO_MANY_PENDING_MESSAGES

(***************************************************************************)
(* C14: if is_message_accepted(origin, lane) is false, verify_message      *)
(* returns Err(MESSAGE_REJECTED_BY_OUTBOUND_LANE) for every lane state and *)
(* payload, the Root origin and a lane without pending messages included.  *)
(***************************************************************************)
C14_BlockedLaneRejectsEveryone ==
  (VerifyMessageReturned /\ ~CallAccepted)
    => (~ret.value.ok /\ ret.value.error = MESSAGE_REJECTED_BY_OUTBOUND_LANE)

\* Root on the blocked lane, nothing pending
C14_Witness ==
  /\ VerifyMessageReturned /\ ~CallAccepted
  /\ call.submitter = "Root" /\ call.lane = "dsbl"
  /\ CallGenerated = 0 /\ CallReceived = 0
  /\ ret.value.error = MESSAGE_REJECTED_BY_OUTBOUND_LANE

(***************************************************************************)
(* C15: for every lane state with latest_generated_nonce <                 *)
(* latest_received_nonce, over the whole range of the nonce type, the      *)
(* pending count is 0 and verify_message on an accepted lane returns Ok,   *)
(* never TOO_MANY_PENDING_MESSAGES.                                        *)
(***************************************************************************)
C15_InconsistentNoncesCountAsZero ==
  (VerifyMessageReturned /\ CallGenerated < CallReceived) =>
    /\ saturating_sub(CallGenerated, CallReceived) = 0
    /\ CallAccepted => ret.value.ok
    /\ ret.value.error # TOO_MANY_PENDING_MESSAGES

\* the widest gap: nothing generated, everything received, limit 0
C15_Witness ==
  /\ VerifyMessageReturned /\ CallAccepted
  /\ CallGenerated = 0 /\ CallReceived = MessageNonceMAX
  /\ this_chain.maximal_pending_messages = 0
  /\ ret.value.ok

(***************************************************************************)
(* Vocabulary for verify_chain_message and the maximal sizes.              *)
(***************************************************************************)
VerifyChainMessageReturned == call.fn = "verify_chain_message" /\ ret.returned
WeightAccepted == call.payload \in bridged_chain.verify_dispatch_weight
MaximalIncomingMessageSizeReturned ==
  call.fn = "maximal_incoming_message_size" /\ ret.returned

(***************************************************************************)
(* C16 as stated: every payload longer than maximal_message_size() fails   *)
(* with MessageTooLarge, and a payload of exactly that length succeeds.    *)
(***************************************************************************)
C16_SizeAloneDecides ==
  VerifyChainMessageReturned =>
    /\ Len(call.payload) > maximal_message_size =>
         (~ret.value.ok /\ ret.value.error = MessageTooLarge)
    /\ Len(call.payload) = maximal_message_size => ret.value.ok

(***************************************************************************)
(* C16 amended: for the payloads that verify_dispatch_weight accepts, a    *)
(* payload longer than maximal_message_size() fails with MessageTooLarge   *)
(* and a payload of exactly that length succeeds with Ok(()).              *)
(***************************************************************************)
C16_SizeDecidesForAcceptedWeight ==
  (VerifyChainMessageReturned /\ WeightAccepted) =>
    /\ Len(call.payload) > maximal_message_size =>
         (~ret.value.ok /\ ret.value.error = MessageTooLarge)
    /\ Len(call.payload) = maximal_message_size => ret.value.ok

\* a payload of exactly the maximal size, accepted
C16_Witness ==
  /\ VerifyChainMessageReturned /\ WeightAccepted
  /\ maximal_message_size = 4 /\ Len(call.payload) = 4
  /\ ret.value.ok

(***************************************************************************)
(* C17: verify_chain_message returns Err(InvalidMessageWeight) for every   *)
(* payload that verify_dispatch_weight rejects, whatever its length, and   *)
(* Ok(()) exactly when the weight is accepted and the length is at most    *)
(* maximal_message_size().                                                 *)
(***************************************************************************)
C17_WeightCheckedFirst ==
  VerifyChainMessageReturned =>
    /\ ~WeightAccepted => (~ret.value.ok /\ ret.value.error = InvalidMessageWeight)
    /\ ret.value.ok <=> (WeightAccepted /\ Len(call.payload) <= maximal_message_size)

\* a payload that is too long and whose weight is rejected
C17_Witness ==
  /\ VerifyChainMessageReturned /\ ~WeightAccepted
  /\ Len(call.payload) > maximal_message_size
  /\ ~ret.value.ok /\ ret.value.error = InvalidMessageWeight

(***************************************************************************)
(* C18 as stated: maximal_incoming_message_size(x) equals x * 2 / 3, the   *)
(* multiplication first.                                                   *)
(***************************************************************************)
C18_MultiplicationFirst ==
  MaximalIncomingMessageSizeReturned =>
    ret.value = (call.maximal_extrinsic_size * 2) \div 3

(***************************************************************************)
(* C18 amended: maximal_incoming_message_size(x) is twice the third of x   *)
(* rounded down (division first): an even number, at most two thirds of x  *)
(* and less than two thirds of x by at most 4/3; it is within u32 for      *)
(* every u32 x, and equals x * 2 / 3 only when x mod 3 is not 2.           *)
(***************************************************************************)
C18_DivisionFirst ==
  MaximalIncomingMessageSizeReturned =>
    LET x == call.maximal_extrinsic_size
        r == ret.value
    IN  /\ r \in 0..U32MAX
        /\ r % 2 = 0
        /\ 3 * r <= 2 * x
        /\ 2 * x - 3 * r <= 4
        /\ (r = (x * 2) \div 3) <=> (x % 3 # 2)

\* the largest u32 with remainder 2: the result is one less than x * 2 / 3
C18_Witness ==
  /\ MaximalIncomingMessageSizeReturned
  /\ call.maximal_extrinsic_size = U32MAX - 1
  /\ ret.value = ((U32MAX - 1) \div 3) * 2
  /\ ret.value # ((U32MAX - 1) * 2) \div 3

(***************************************************************************)
(* Vocabulary for size().                                                  *)
(***************************************************************************)
\* the sum of the lengths of the nodes, as a number
RECURSIVE SumOfNodeLengths(_)
SumOfNodeLengths(nodes) ==
  IF nodes = <<>> THEN 0 ELSE Len(Head(nodes)) + SumOfNodeLengths(Tail(nodes))

SizeReturned == call.fn = "size" /\ ret.returned

(***************************************************************************)
(* C19: size() of both proof types is the sum of the byte lengths of the   *)
(* storage-proof nodes when the sum fits in u32 and u32::MAX otherwise; it *)
(* never wraps, and depends on nothing but the nodes (not on the lane, the *)
(* header hash or the nonce range).                                        *)
(***************************************************************************)
C19_SizeIsSaturatedSum ==
  SizeReturned =>
    LET sum == SumOfNodeLengths(proof.storage_proof)
    IN  /\ ret.value = IF sum <= U32MAX THEN sum ELSE U32MAX
        /\ ret.value \in 0..U32MAX
        /\ \A i \in 1..Len(proof.storage_proof) :
             Len(proof.storage_proof[i]) <= U32MAX => ret.value >= Len(proof.storage_proof[i])

\* a delivery proof whose nodes add up to one more than u32::MAX
C19_Witness ==
  /\ SizeReturned
  /\ proof.kind = "FromBridgedChainMessagesDeliveryProof"
  /\ SumOfNodeLengths(proof.storage_proof) = U32MAX + 1
  /\ ret.value = U32MAX

(***************************************************************************)
(* Vocabulary for dispatch_weight and dispatch.                            *)
(***************************************************************************)
DispatchWeightReturned == call.fn = "dispatch_weight" /\ ret.returned
DispatchReturned == call.fn = "dispatch" /\ ret.returned
\* the payload handed to the call, and the weigher's answer for it
PayloadBefore == call.message.data.payload
WeighedBefore == xcm_weigher[PayloadBefore.value.xcm]

(***************************************************************************)
(* C20: dispatch_weight never propagates a failure.  If the weigher fails  *)
(* on a decoded payload it returns zero and records Some(zero); if the     *)
(* payload failed to decode it returns zero; if the weigher succeeds it    *)
(* returns that weight and records Some(weight).  dispatch gives the       *)
(* recorded weight to the executor as the weight limit.                    *)
(***************************************************************************)
C20_WeightFailureDegradesToZero ==
  /\ DispatchWeightReturned =>
       /\ ret.value \in 0..MaxWeight
       /\ ~PayloadBefore.ok =>
            /\ ret.value = Weight_zero
            /\ ~message.data.payload.ok
       /\ (PayloadBefore.ok /\ ~WeighedBefore.weight.ok) =>
            /\ ret.value = Weight_zero
            /\ message.data.payload.value.weight = Some(Weight_zero)
       /\ (PayloadBefore.ok /\ WeighedBefore.weight.ok) =>
            /\ ret.value = WeighedBefore.weight.value
            /\ message.data.payload.value.weight = Some(WeighedBefore.weight.value)
  /\ DispatchReturned =>
       /\ ~PayloadBefore.ok => executed = <<>>
       /\ PayloadBefore.ok =>
            /\ Len(executed) = 1
            /\ \A w \in 0..MaxWeight :
                 PayloadBefore.value.weight = Some(w) => executed[1].weight_limit = w
            /\ PayloadBefore.value.weight = None => executed[1].weight_limit = Weight_zero

\* every weighing fails: zero was recorded and reached the executor as the
\* weight limit
C20_Witness ==
  /\ DispatchReturned
  /\ \A x \in Xcms : ~xcm_weigher[x].weight.ok
  /\ PayloadBefore.ok /\ PayloadBefore.value.weight = Some(Weight_zero)
  /\ Len(executed) = 1 /\ executed[1].weight_limit = Weight_zero

(***************************************************************************)
(* Vocabulary for repeated invocations.                                    *)
(***************************************************************************)
\* the second invocation of a proof verifier has returned
SecondProofVerdict == previous.returned /\ pc = "done" /\ result.returned
\* the second invocation of verify_message or verify_chain_message has returned
SecondMessageVerdict ==
  previous.returned /\ call.fn \in {"verify_message", "verify_chain_message"}

\* no step writes the trusted header set, the lane state or the hooks
NoSideEffect ==
  /\ imported_headers' = imported_headers
  /\ outbound_lane' = outbound_lane
  /\ this_chain' = this_chain
  /\ bridged_chain' = bridged_chain

MessageReads == Cardinality({i \in 1..Len(checks) : checks[i] = "message"})

\* the i-th check of a call that makes k message reads
CheckAt(i, k) ==
  IF i = 1 THEN "header"
  ELSE IF i = 2 THEN "count"
  ELSE IF i <= 2 + k THEN "message"
  ELSE IF i = 3 + k THEN "lane_state"
  ELSE IF i = 4 + k THEN "empty"
  ELSE "unused_nodes"

\* the count check as lines 637-650 apply it: to ranges that are not inverted
CountMismatch == ~Inverted /\ messages_count # RangeLength

\* the error of the first check, in the order of the claim, that the call's
\* arguments fail; "" when they fail none
FirstFailingCheck ==
  IF ~RootMatches THEN "HeaderChain"
  ELSE IF CountMismatch THEN "MessagesCountMismatch"
  ELSE IF ~AllMessagesValid THEN "MessageStorage"
  ELSE IF LaneDataUndecodable THEN "OutboundLaneStorage"
  ELSE IF LaneDataMissing /\ ClaimedNonces = {} THEN "EmptyMessageProof"
  ELSE IF CarriesUnclaimedNode THEN "StorageProof"
  ELSE ""

RangeExceedsU32 == ~Inverted /\ RangeLength > U32MAX

\* the call ended at the count check: nothing allocated, nothing read
EndedAtCountCheck ==
  /\ result = ReturnErr(MessagesCountMismatch)
  /\ checks = <<"header", "count">>
  /\ visited = {}
  /\ messages = <<>>

(***************************************************************************)
(* C23 as stated: for every non-inverted range longer than u32::MAX,       *)
(* verify_messages_proof returns Err(MessagesCountMismatch) for every      *)
(* declared count, before the messages vector is allocated or any message  *)
(* is read.                                                                *)
(***************************************************************************)
C23_LongRangeAlwaysCountMismatch ==
  (Done /\ RangeExceedsU32) => EndedAtCountCheck

(***************************************************************************)
(* C23 amended: for a proof whose header resolves and whose non-inverted   *)
(* range is longer than u32::MAX (0..=u64::MAX included, where the +1      *)
(* saturates), verify_messages_proof returns Err(MessagesCountMismatch)    *)
(* for every declared count, before the messages vector is allocated or    *)
(* any message is read; the count that passes the check, and so the        *)
(* capacity of the vector, never exceeds u32::MAX.  When the header does   *)
(* not resolve the call returns Err(HeaderChain(..)) and reads nothing.    *)
(***************************************************************************)
C23_LongRangeCountMismatchOnceResolved ==
  /\ LET r == messages_in_the_proof(proof.nonces_start, proof.nonces_end, messages_count)
     IN  /\ r.ok => r.value \in 0..U32MAX
         /\ RangeExceedsU32 => ~r.ok
  /\ (Done /\ RangeExceedsU32 /\ RootMatches) => EndedAtCountCheck
  /\ (Done /\ RangeExceedsU32 /\ ~RootMatches) =>
       /\ ~result.ok /\ result.error.variant = "HeaderChain"
       /\ visited = {} /\ messages = <<>>

\* the whole nonce type claimed, declared with the largest count
C23_Witness ==
  /\ Done /\ RootMatches
  /\ proof.nonces_start = 0 /\ proof.nonces_end = MessageNonceMAX
  /\ messages_count = U32MAX
  /\ EndedAtCountCheck

====
